---- MODULE Spec2Model ----
(***************************************************************************)
(* The procedural animator of the avatar: the per-frame update of          *)
(* Avatar (useFrame) as a state machine.  One step is one call of the      *)
(* callback, with the props (state, targetPosition, lookAtTarget) and the  *)
(* frame delta it is called with.  The refs the callback tests on entry    *)
(* are set when the component mounts, before the first frame.  The         *)
(* orientations the callback derives from the state below (head and upper  *)
(* arm lookAt, the hand's preset rotation) are not stored.                 *)
(*                                                                         *)
(* Spec           any props and delta on every frame, finite coordinates   *)
(* SpecNonFinite  the same, with NaN coordinates among the props           *)
(* SpecIK         the elbow solve alone, over every distance               *)
(*                                                                         *)
(* Numbers.  Lengths are fixed point, Unit steps per world unit; angles    *)
(* are in 1/Unit radians; time is in ticks, TicksPerSecond per second, so  *)
(* that 1/60 s and 0.05 s are both whole.  A product or quotient is        *)
(* rounded toward zero.  The one non-finite value modelled is NaN, and     *)
(* every arithmetic operator propagates it as IEEE-754 does.               *)
(***************************************************************************)
EXTENDS Integers, Sequences, FiniteSets, TLC

Unit == 10 ^ 3
TicksPerSecond == 3 * Unit

NaN == -(2 ^ 30)

IsNaN(a) == a = NaN

Finite(a) == a # NaN

\* Quotient rounded toward zero.
TDiv(a, b) == IF a >= 0 THEN a \div b ELSE -((-a) \div b)

\* ------------------------------------------------------------ arithmetic
FAdd(a, b) == IF IsNaN(a) \/ IsNaN(b) THEN NaN ELSE a + b

FSub(a, b) == IF IsNaN(a) \/ IsNaN(b) THEN NaN ELSE a - b

FNeg(a) == IF IsNaN(a) THEN NaN ELSE -a

\* a * (n / d) for a fixed rational n / d.
FMulQ(a, n, d) == IF IsNaN(a) THEN NaN ELSE TDiv(a * n, d)

\* Product of two fixed-point numbers.
FMul(a, b) == IF IsNaN(a) \/ IsNaN(b) THEN NaN ELSE TDiv(a * b, Unit)

\* Math.abs
FAbs(a) == IF IsNaN(a) THEN NaN ELSE IF a < 0 THEN -a ELSE a

\* a > b: false as soon as one side is NaN.
FGt(a, b) == ~IsNaN(a) /\ ~IsNaN(b) /\ a > b

\* Math.max, Math.min: NaN as soon as one argument is NaN.
FMax(a, b) == IF IsNaN(a) \/ IsNaN(b) THEN NaN ELSE IF a > b THEN a ELSE b

FMin(a, b) == IF IsNaN(a) \/ IsNaN(b) THEN NaN ELSE IF a < b THEN a ELSE b

RECURSIVE Gcd(_, _)
Gcd(a, b) == IF b = 0 THEN a ELSE Gcd(b, a % b)

\* MathUtils.lerp(x, y, t) and Vector3.lerp, componentwise, with t = n / d
\* (n >= 0, d > 0; the fraction is reduced first).  Neither clamps t.
Lerp(x, y, n, d) ==
    IF IsNaN(x) \/ IsNaN(y) THEN NaN
    ELSE x + TDiv((y - x) * (n \div Gcd(n, d)), d \div Gcd(n, d))

\* ---------------------------------------------------------------- vectors
Vec(a, b, c) == [x |-> a, y |-> b, z |-> c]

VAdd(u, v) == Vec(FAdd(u.x, v.x), FAdd(u.y, v.y), FAdd(u.z, v.z))

VSub(u, v) == Vec(FSub(u.x, v.x), FSub(u.y, v.y), FSub(u.z, v.z))

VLerp(u, v, n, d) == Vec(Lerp(u.x, v.x, n, d), Lerp(u.y, v.y, n, d), Lerp(u.z, v.z, n, d))

VFinite(v) == Finite(v.x) /\ Finite(v.y) /\ Finite(v.z)

\* An optional vector (Vector3 | null): the empty sequence, or <<v>>.
Null == << >>

Some(v) == << v >>

\* ------------------------------------------------------------ square root
RECURSIVE SqrtSearch(_, _, _)
SqrtSearch(n, lo, hi) ==
    IF lo >= hi THEN lo
    ELSE LET mid == (lo + hi + 1) \div 2
         IN  IF mid * mid <= n THEN SqrtSearch(n, mid, hi)
             ELSE SqrtSearch(n, lo, mid - 1)

\* The integer square root of n, for 0 <= n < 2^30.
ISqrt(n) == SqrtSearch(n, 0, 2 ^ 15)

\* sqrt(a*a + b*b + c*c); a long vector is halved first, so that the squares
\* stay below 2^31.
RECURSIVE Hypot(_, _, _)
Hypot(a, b, c) ==
    IF a > 2 ^ 14 \/ a < -(2 ^ 14) \/ b > 2 ^ 14 \/ b < -(2 ^ 14)
       \/ c > 2 ^ 14 \/ c < -(2 ^ 14)
    THEN 2 * Hypot(TDiv(a, 2), TDiv(b, 2), TDiv(c, 2))
    ELSE ISqrt(a * a + b * b + c * c)

\* Vector3.length
VLength(v) == IF ~VFinite(v) THEN NaN ELSE Hypot(v.x, v.y, v.z)

\* ----------------------------------------------------------- trigonometry
Pi == 3142

\* Math.sin on [0, Pi] (Bhaskara's rational approximation, within 0.002).
SinHalf(a) ==
    LET p == (a * (Pi - a)) \div Unit
    IN  (16 * Unit * p) \div (((5 * Pi * Pi) \div Unit) - 4 * p)

\* Math.sin
Sin(a) ==
    IF IsNaN(a) THEN NaN
    ELSE LET r == a % (2 * Pi)
         IN  IF r <= Pi THEN SinHalf(r) ELSE -SinHalf(r - Pi)

\* Math.cos
Cos(a) == IF IsNaN(a) THEN NaN ELSE Sin(a + Pi \div 2)

\* atan on [0, 1] (within 0.004): t * Pi/4 + 0.273 * t * (1 - t).
AtanUnit(t) == (Pi * t) \div (4 * Unit) + (273 * t * (Unit - t)) \div (Unit * Unit)

\* Math.atan2(y, x)
Atan2(y, x) ==
    IF IsNaN(y) \/ IsNaN(x) THEN NaN
    ELSE IF x = 0 /\ y = 0 THEN 0
    ELSE LET a == IF y < 0 THEN -y ELSE y
             b == IF x < 0 THEN -x ELSE x
             r == IF a <= b THEN AtanUnit((Unit * a) \div b)
                  ELSE Pi \div 2 - AtanUnit((Unit * b) \div a)
             q == IF x < 0 THEN Pi - r ELSE r
         IN  IF y < 0 THEN -q ELSE q

\* Math.acos: NaN outside [-1, 1].
Acos(c) ==
    IF IsNaN(c) \/ c > Unit \/ c < -Unit THEN NaN
    ELSE Atan2(ISqrt(Unit * Unit - c * c), c)

\* ------------------------------------------------------------- the avatar
AvatarState == {"IDLE", "WRITING", "THINKING", "GRABBING", "WALKING"}

VARIABLES
    frame,              \* updates run so far
    time,               \* stateThree.clock elapsed time, in ticks
    state,              \* prop: the behavioural state of the last update
    targetPosition,     \* prop: the hand target of the last update, or Null
    lookAtTarget,       \* prop: the gaze target of the last update, or Null
    dt,                 \* the clamped frame delta of the last update, in ticks
    bodyTargetX,        \* bodyTargetX.current
    bodyPosition,       \* bodyPosition.current (= groupRef.current.position)
    spineY,             \* spineRef.current.position.y
    headLookAt,         \* headLookAt.current
    currentHandTarget,  \* currentHandTarget.current
    dist,               \* shoulder-to-hand distance of the last update
    elbowAngle,         \* rightForeArmGroup.current.rotation.x
    bodyRotationY,      \* bodyRotationY.current (= spine rotation.y)
    bodyLean,           \* bodyLean.current (= spine rotation.x, rotation.z)
    avatarState,        \* App: the state prop of the next render
    ikTarget,           \* App: the targetPosition prop of the next render, or Null
    appLookAtTarget,    \* App: lookAtTarget, the prop of that name, or Null
    strokes,            \* App: the finished strokes
    currentStroke,      \* App: the stroke being drawn, or Null
    aiThinking,         \* App: the analysis button is disabled
    aiText,             \* App: the text the board is to write
    orbitEnabled,       \* App: the camera follows the pointer
    shapes,             \* App: the number of shapes
    analysis,           \* the promise of the last analyzeBlackboard call
    graphTimer,         \* the timer of the graph effect is pending
    returnTimers,       \* pending timers of addGraphShape
    charIndex,          \* Blackboard: characters written so far
    displayedText,      \* Blackboard: the text written so far
    boardDirty,         \* Blackboard: the draw effect is due
    boardPointerDown,   \* the pointer is held down on the board
    dragging            \* DraggableMesh: the mesh follows the pointer

avatarVars == << frame, time, state, targetPosition, lookAtTarget, dt, bodyTargetX,
                 bodyPosition, spineY, headLookAt, currentHandTarget, dist,
                 elbowAngle, bodyRotationY, bodyLean >>

appVars == << avatarState, ikTarget, appLookAtTarget, strokes, currentStroke,
              aiThinking, aiText, orbitEnabled, shapes, analysis, graphTimer,
              returnTimers, charIndex, displayedText, boardDirty,
              boardPointerDown, dragging >>

vars == << avatarVars, appVars >>

\* const dt = Math.min(delta, 0.05)
MaxDt == 150

ClampDt(delta) == IF delta < MaxDt THEN delta ELSE MaxDt

\* --- 1. Locomotion & Positioning
HandOffset == 400

Deadzone == 800

StageBound == 3200

\* SourceBodyTargetX without the deadzone test: WRITING steps on every frame.
MutSourceAlwaysStep(b, st, tp, la) ==
    IF tp # Null THEN
        IF st \in {"WRITING", "GRABBING"} THEN FSub(tp[1].x, HandOffset)
        ELSE IF st = "THINKING" THEN 0
        ELSE b
    ELSE IF la # Null THEN
        IF st = "IDLE" THEN FMulQ(la[1].x, 3, 10) ELSE b
    ELSE b

\* SourceBodyTargetX with the hand offset added instead of subtracted.
MutSourceOffsetSign(b, st, tp, la) ==
    IF tp # Null THEN
        IF st = "WRITING" THEN
            LET idealX == FAdd(tp[1].x, HandOffset)
                d == FAbs(FSub(idealX, b))
            IN  IF FGt(d, Deadzone) THEN idealX ELSE b
        ELSE IF st = "GRABBING" THEN FAdd(tp[1].x, HandOffset)
        ELSE IF st = "THINKING" THEN 0
        ELSE b
    ELSE IF la # Null THEN
        IF st = "IDLE" THEN FMulQ(la[1].x, 3, 10) ELSE b
    ELSE b

\* bodyTargetX.current after the state-specific sourcing, before the clamp.
\* SourceBodyTargetX with THINKING centring the body whatever the directive
\* carries.
MutSourceThinkingAlways(b, st, tp, la) ==
    IF st = "THINKING" THEN 0
    ELSE IF tp # Null THEN
        IF st = "WRITING" THEN
            LET idealX == FSub(tp[1].x, HandOffset)
                d == FAbs(FSub(idealX, b))
            IN  IF FGt(d, Deadzone) THEN idealX ELSE b
        ELSE IF st = "GRABBING" THEN FSub(tp[1].x, HandOffset)
        ELSE b
    ELSE IF la # Null THEN
        IF st = "IDLE" THEN FMulQ(la[1].x, 3, 10) ELSE b
    ELSE b

SourceBodyTargetX(b, st, tp, la) ==
    IF tp # Null THEN
        IF st = "WRITING" THEN
            LET idealX == FSub(tp[1].x, HandOffset)
                d == FAbs(FSub(idealX, b))
            IN  IF FGt(d, Deadzone) THEN idealX ELSE b
        ELSE IF st = "GRABBING" THEN FSub(tp[1].x, HandOffset)
        ELSE IF st = "THINKING" THEN 0
        ELSE b
    ELSE IF la # Null THEN
        IF st = "IDLE" THEN FMulQ(la[1].x, 3, 10) ELSE b
    ELSE b

\* ClampToStage with the lower bound forgotten.
MutClampUpperOnly(b) == FMin(StageBound, b)

\* Clamp to stage bounds.
ClampToStage(b) == FMax(-StageBound, FMin(StageBound, b))

NextBodyTargetX(b, st, tp, la) == ClampToStage(SourceBodyTargetX(b, st, tp, la))

\* BodyLerpSpeed with the rates of the hand smoothing.
MutBodyLerpSpeedOfHand(st) ==
    IF st = "WRITING" THEN 50 ELSE IF st = "GRABBING" THEN 20 ELSE 6

BodyLerpSpeed(st) == IF st = "WRITING" THEN 4 ELSE 2

NextBodyPositionX(px, target, st, d) ==
    Lerp(px, target, d * BodyLerpSpeed(st), TicksPerSecond)

\* --- Bobbing / Breathing
RestHeight == 1000

MaxWalkBob == 50

\* WalkBob without the cap on the speed.
MutWalkBobUncapped(t, px, target) ==
    FMul(Sin(4 * t), FMulQ(FAbs(FSub(px, target)), 10, 1))

WalkBob(t, px, target) ==
    LET speed == FMulQ(FAbs(FSub(px, target)), 10, 1)
    IN  FMul(Sin(4 * t), FMin(speed, MaxWalkBob))

NextSpineY(sy, st, t, px, target, d) ==
    IF st # "WRITING" THEN
        FAdd(FAdd(RestHeight, FMulQ(Sin(t \div 2), 5, Unit)), WalkBob(t, px, target))
    ELSE Lerp(sy, RestHeight, d * 10, TicksPerSecond)

\* --- 2. Head Tracking
ForwardLook == Vec(0, 1500, 10000)

ThinkingLook == Vec(2000, 4000, 5000)

TargetLook(st, la) ==
    IF st = "THINKING" THEN ThinkingLook
    ELSE IF la # Null THEN la[1] ELSE ForwardLook

\* HeadLerpSpeed without the faster tracking while writing.
MutHeadLerpSpeedUniform(st) == 5

HeadLerpSpeed(st) == IF st = "WRITING" THEN 20 ELSE 5

NextHeadLookAt(h, st, la, d) ==
    VLerp(h, TargetLook(st, la), d * HeadLerpSpeed(st), TicksPerSecond)

\* --- 3. Inverse Kinematics (Right Arm)
RestOffset == Vec(350, 900, 300)

ThinkOffset == Vec(150, 1600, 350)

\* groupRef.current.position
GroupPosition(px) == Vec(px, 0, 0)

\* ActivePos with the hand target of the props taking precedence over the
\* thinking pose.
MutActivePosTargetFirst(st, tp, px) ==
    IF tp # Null THEN tp[1]
    ELSE IF st = "THINKING" THEN VAdd(GroupPosition(px), Vec(150, 1600, 350))
    ELSE VAdd(Vec(350, 900, 300), GroupPosition(px))

ActivePos(st, tp, px) ==
    IF st = "THINKING" THEN VAdd(GroupPosition(px), ThinkOffset)
    ELSE IF tp # Null THEN tp[1]
    ELSE VAdd(RestOffset, GroupPosition(px))

\* HandLerpSpeed with the rates of the body smoothing.
MutHandLerpSpeedOfBody(st) == IF st = "WRITING" THEN 4 ELSE 2

HandLerpSpeed(st) ==
    IF st = "WRITING" THEN 50 ELSE IF st = "GRABBING" THEN 20 ELSE 6

NextHandTarget(h, st, tp, px, d) ==
    VLerp(h, ActivePos(st, tp, px), d * HandLerpSpeed(st), TicksPerSecond)

ShoulderOffsetLocal == Vec(280, 500, 0)

\* spineRef.current.localToWorld(shoulderOffsetLocal): the spine's Euler XYZ
\* rotation (rx, ry, rz), its height sy and the root offset px.
\* The vector (vx, vy, 0) turned by the rotation matrix of an Euler XYZ
\* rotation, given the cosines and sines a, b (x), c, s (y), e, f (z) of its
\* angles (Matrix4.makeRotationFromEuler).
RotateXYZ(a, b, c, s, e, f, vx, vy) ==
    Vec(FSub(FMul(FMul(c, e), vx), FMul(FMul(c, f), vy)),
        FAdd(FMul(FAdd(FMul(a, f), FMul(FMul(b, e), s)), vx),
             FMul(FSub(FMul(a, e), FMul(FMul(b, f), s)), vy)),
        FAdd(FMul(FSub(FMul(b, f), FMul(FMul(a, e), s)), vx),
             FMul(FAdd(FMul(b, e), FMul(FMul(a, f), s)), vy)))

ShoulderPos(px, sy, rx, ry, rz) ==
    VAdd(Vec(px, sy, 0),
         RotateXYZ(Cos(rx), Sin(rx), Cos(ry), Sin(ry), Cos(rz), Sin(rz),
                   ShoulderOffsetLocal.x, ShoulderOffsetLocal.y))

ShoulderDist(hand, shoulder) == VLength(VSub(hand, shoulder))

UpperArmLen == 700

LowerArmLen == 750

MaxReach == UpperArmLen + LowerArmLen - 10

\* CosElbow of the distance itself, not of min(dist, maxReach).
MutCosElbowUnbounded(dd) ==
    IF IsNaN(dd) THEN NaN
    ELSE TDiv((700 * 700 + 750 * 750 - dd * dd) * Unit, 2 * 700 * 750)

\* (upperArmLen**2 + lowerArmLen**2 - Math.min(dist, maxReach)**2)
\*     / (2 * upperArmLen * lowerArmLen)
CosElbow(dd) ==
    LET m == FMin(dd, MaxReach)
    IN  IF IsNaN(m) THEN NaN
        ELSE TDiv((UpperArmLen * UpperArmLen + LowerArmLen * LowerArmLen - m * m) * Unit,
                  2 * UpperArmLen * LowerArmLen)

\* ClampCos with the upper bound forgotten.
MutClampCosLowerOnly(c) == FMax(-Unit, c)

\* Math.max(-1, Math.min(1, cosElbow))
ClampCos(c) == FMax(-Unit, FMin(Unit, c))

ElbowAngle(dd) == Acos(ClampCos(CosElbow(dd)))

\* --- 4. Body Mechanics (Leaning)
HasFocus(tp, la) == tp # Null \/ la # Null

FocusPoint(tp, la) == IF tp # Null THEN tp[1] ELSE la[1]

\* groupRef.current.worldToLocal(focusPoint.clone())
LocalLook(tp, la, px) == VSub(FocusPoint(tp, la), GroupPosition(px))

TargetYRot(tp, la, px) ==
    LET l == LocalLook(tp, la, px)
    IN  FMulQ(Atan2(l.x, l.z), 7, 10)

RotationSpeed(st) == IF st = "WRITING" THEN 1 ELSE 4

\* NextBodyRotationY with the yaw held, not relaxed, when the props carry no
\* target.
MutBodyRotationYHeld(ry, st, tp, la, px, d) ==
    IF HasFocus(tp, la)
    THEN Lerp(ry, TargetYRot(tp, la, px), d * RotationSpeed(st), TicksPerSecond)
    ELSE ry

NextBodyRotationY(ry, st, tp, la, px, d) ==
    IF HasFocus(tp, la)
    THEN Lerp(ry, TargetYRot(tp, la, px), d * RotationSpeed(st), TicksPerSecond)
    ELSE Lerp(ry, 0, d * 3, TicksPerSecond)

\* Math.min(dist / maxReach, 1)
ReachExtension(dd) ==
    IF IsNaN(dd) THEN NaN
    ELSE IF dd >= MaxReach THEN Unit ELSE TDiv(dd * Unit, MaxReach)

TargetLeanX(st, tp, la, px) ==
    IF st \in {"GRABBING", "WRITING"}
    THEN FMulQ(FSub(LocalLook(tp, la, px).y, Unit), 1, 10)
    ELSE 0

\* TargetLeanZ with the factors of WRITING and GRABBING exchanged.
MutTargetLeanZSwapped(st, tp, la, px, dd) ==
    IF st \in {"GRABBING", "WRITING"}
    THEN FMul(FMulQ(FNeg(LocalLook(tp, la, px).x),
                    IF st = "WRITING" THEN 20 ELSE 5, 100),
              ReachExtension(dd))
    ELSE 0

TargetLeanZ(st, tp, la, px, dd) ==
    IF st \in {"GRABBING", "WRITING"}
    THEN FMul(FMulQ(FNeg(LocalLook(tp, la, px).x),
                    IF st = "WRITING" THEN 5 ELSE 20, 100),
              ReachExtension(dd))
    ELSE 0

LeanLerpSpeed == 5

\* NextBodyLean with the lean smoothed toward 0, not set to it, when the
\* props carry no target.
MutBodyLeanSmoothReset(lean, st, tp, la, px, dd, d) ==
    IF HasFocus(tp, la)
    THEN Vec(Lerp(lean.x, TargetLeanX(st, tp, la, px), d * 5, TicksPerSecond),
             lean.y,
             Lerp(lean.z, TargetLeanZ(st, tp, la, px, dd), d * 5, TicksPerSecond))
    ELSE Vec(Lerp(lean.x, 0, d * 5, TicksPerSecond),
             lean.y,
             Lerp(lean.z, 0, d * 5, TicksPerSecond))

NextBodyLean(lean, st, tp, la, px, dd, d) ==
    IF HasFocus(tp, la)
    THEN Vec(Lerp(lean.x, TargetLeanX(st, tp, la, px), d * LeanLerpSpeed, TicksPerSecond),
             lean.y,
             Lerp(lean.z, TargetLeanZ(st, tp, la, px, dd), d * LeanLerpSpeed, TicksPerSecond))
    ELSE Vec(0, 0, 0)

\* ============================================ the page around the avatar
\* App.tsx owns the props of the avatar and changes them in event handlers,
\* timers and the continuation of the analysis request.  A text is the
\* sequence of its characters.
GraphOpen == << "[", "[", "G", "R", "A", "P", "H", ":" >>

TagClose == << "]", "]" >>

\* White space of the texts of the model: \s of a regular expression, and
\* what String.prototype.trim removes.
Whitespace == { " ", "\n" }

\* The literal lit stands in t at index i.
StartsWithAt(t, lit, i) ==
    /\ i >= 1
    /\ i + Len(lit) - 1 <= Len(t)
    /\ SubSeq(t, i, i + Len(lit) - 1) = lit

\* .*?\]\] from index j: the index of the first "]]" at or after j that is
\* reached without crossing a line break (. matches none), or 0.
RECURSIVE CloseIndex(_, _)
CloseIndex(t, j) ==
    IF j + 1 > Len(t) THEN 0
    ELSE IF StartsWithAt(t, TagClose, j) THEN j
    ELSE IF t[j] = "\n" THEN 0
    ELSE CloseIndex(t, j + 1)

\* response.replace(/\[\[GRAPH:.*?\]\]/g, ''), scanning from index i.
RECURSIVE StripFrom(_, _)
StripFrom(t, i) ==
    IF i > Len(t) THEN << >>
    ELSE IF StartsWithAt(t, GraphOpen, i) /\ CloseIndex(t, i + Len(GraphOpen)) # 0
         THEN StripFrom(t, CloseIndex(t, i + Len(GraphOpen)) + Len(TagClose))
         ELSE << t[i] >> \o StripFrom(t, i + 1)

StripGraphTags(t) == StripFrom(t, 1)

RECURSIVE TrimStart(_)
TrimStart(t) ==
    IF t # << >> /\ Head(t) \in Whitespace THEN TrimStart(Tail(t)) ELSE t

RECURSIVE TrimEnd(_)
TrimEnd(t) ==
    IF t # << >> /\ t[Len(t)] \in Whitespace
    THEN TrimEnd(SubSeq(t, 1, Len(t) - 1))
    ELSE t

Trim(t) == TrimEnd(TrimStart(t))

\* \s*: the index of the first character at or after i that is not white
\* space.
RECURSIVE SkipSpace(_, _)
SkipSpace(t, i) ==
    IF i <= Len(t) /\ t[i] \in Whitespace THEN SkipSpace(t, i + 1) ELSE i

\* /\[\[GRAPH:\s*(.*?)\]\]/ matches t at index i.
GraphMatchAt(t, i) ==
    /\ StartsWithAt(t, GraphOpen, i)
    /\ CloseIndex(t, SkipSpace(t, i + Len(GraphOpen))) # 0

\* aiText.match(...) is not null.
GraphMatch(t) == \E i \in 1 .. Len(t) : GraphMatchAt(t, i)

\* response.text of the model: nothing, a plain answer, an answer that is
\* only a graph command, and a graph command with a line break after the
\* colon.
Responses ==
    { << >>,
      << "o", "k" >>,
      << "[", "[", "G", "R", "A", "P", "H", ":", "x", "]", "]" >>,
      << "[", "[", "G", "R", "A", "P", "H", ":", "\n", "x", "]", "]" >> }

\* "I couldn't see that clearly."
UnclearText ==
    << "I", " ", "c", "o", "u", "l", "d", "n", "'", "t", " ", "s", "e", "e",
       " ", "t", "h", "a", "t", " ", "c", "l", "e", "a", "r", "l", "y", "." >>

\* "I'm having trouble connecting to the brain (API Error)."
ApiErrorText ==
    << "I", "'", "m", " ", "h", "a", "v", "i", "n", "g", " ", "t", "r", "o",
       "u", "b", "l", "e", " ", "c", "o", "n", "n", "e", "c", "t", "i", "n",
       "g", " ", "t", "o", " ", "t", "h", "e", " ", "b", "r", "a", "i", "n",
       " ", "(", "A", "P", "I", " ", "E", "r", "r", "o", "r", ")", "." >>

\* The promise of an analyzeBlackboard call: none made yet, pending,
\* rejected (the body of the async function threw), or fulfilled with a text.
NoRequest == [status |-> "none", value |-> << >>]

Pending == [status |-> "pending", value |-> << >>]

Rejected == [status |-> "rejected", value |-> << >>]

Fulfilled(text) == [status |-> "fulfilled", value |-> text]

\* The promise analyzeBlackboard returns, once settled.  The client is
\* constructed before the try block, so a constructor that throws rejects the
\* promise; a generateContent that throws is caught; an empty text is
\* replaced.
AnalyzeBlackboard(constructed, called, text) ==
    IF ~constructed THEN Rejected
    ELSE IF ~called THEN Fulfilled(ApiErrorText)
    ELSE IF text = << >> THEN Fulfilled(UnclearText)
    ELSE Fulfilled(text)

\* Points of the board plane under the pointer (e.point, world space).
BoardPoints == { Vec(1200, 500, -2000), Vec(-3000, -1000, -2000) }

\* Points under the pointer while it is on a shape.
DragPoints == { Vec(-3000, 500, 1000), Vec(-1000, 800, 200) }

\* Where the chalk stands after the text drawn so far; the layout depends on
\* the font metrics of the browser.
CursorPoints == { Vec(-3400, 1300, -1800) }

ThinkingHand == Vec(500, 1800, 200)

GraphSpawn == Vec(0, 1000, 1500)

\* writeTarget.z = -1.8
AtBoardDepth(p) == [p EXCEPT !.z = -1800]

\* newPos.z = Math.max(0.5, newPos.z)
AwayFromBoard(p) == [p EXCEPT !.z = FMax(500, p.z)]

\* mapWorldToUV(point), the inverse of the board's size 8 x 4.
MapWorldToUV(p) == [u |-> TDiv((p.x + 4000) * Unit, 8000),
                    v |-> TDiv((p.y + 2000) * Unit, 4000)]

MaxShapes == 3

MaxStrokes == 1

InitApp ==
    /\ avatarState = "IDLE"
    /\ ikTarget = Null
    /\ appLookAtTarget = Null
    /\ strokes = << >>
    /\ currentStroke = Null
    /\ aiThinking = FALSE
    /\ aiText = << >>
    /\ orbitEnabled = TRUE
    /\ shapes = 2
    /\ analysis = NoRequest
    /\ graphTimer = FALSE
    /\ returnTimers = 0
    /\ charIndex = 0
    /\ displayedText = << >>
    /\ boardDirty = FALSE
    /\ boardPointerDown = FALSE
    /\ dragging = FALSE

MutAiTextEffectsNoReset(old, new) ==
    /\ graphTimer' = (IF new = old THEN graphTimer ELSE GraphMatch(new))
    /\ UNCHANGED << charIndex, displayedText >>

\* The effects that follow a render in which aiText went from old to new:
\* the graph effect of App.tsx (its cleanup clears the pending timer, a match
\* arms a new one) and the reset of the typewriter of the board.
AiTextEffects(old, new) ==
    /\ graphTimer' = (IF new = old THEN graphTimer ELSE GraphMatch(new))
    /\ charIndex' = (IF new = << >> THEN 0 ELSE charIndex)
    /\ displayedText' = (IF new = << >> THEN << >> ELSE displayedText)

\* The board draws again after a render that changed displayedText or the
\* strokes prop; with a stroke in progress the prop is a new array in every
\* render.
Redraw(changed) ==
    boardDirty' = (boardDirty \/ changed \/ currentStroke' # Null)

\* handleAskAI up to its await.  canvasRef.current was set by the mount
\* effect of the board, before any event.  The button is disabled while
\* aiThinking.
AskAI ==
    /\ ~aiThinking
    /\ avatarState' = "THINKING"
    /\ aiThinking' = TRUE
    /\ aiText' = << >>
    /\ ikTarget' = Some(ThinkingHand)
    /\ analysis' = Pending
    /\ AiTextEffects(aiText, << >>)
    /\ UNCHANGED << appLookAtTarget, strokes, currentStroke, orbitEnabled, shapes,
                    returnTimers, boardPointerDown, dragging >>
    /\ Redraw(displayedText' # displayedText)
    /\ UNCHANGED avatarVars

\* The promise of analyzeBlackboard settles.  Fulfilled, handleAskAI goes on
\* after its await; rejected, the await throws and handleAskAI ends there.
AnalysisResponse ==
    /\ analysis = Pending
    /\ \E constructed \in BOOLEAN, called \in BOOLEAN, text \in Responses :
        /\ analysis' = AnalyzeBlackboard(constructed, called, text)
        /\ IF analysis' = Rejected
           THEN UNCHANGED << aiThinking, avatarState, aiText, graphTimer, charIndex,
                             displayedText >>
           ELSE /\ aiThinking' = FALSE
                /\ avatarState' = "WRITING"
                /\ aiText' = Trim(StripGraphTags(analysis'.value))
                /\ AiTextEffects(aiText, aiText')
    /\ UNCHANGED << ikTarget, appLookAtTarget, strokes, currentStroke, orbitEnabled,
                    shapes, returnTimers, boardPointerDown, dragging >>
    /\ Redraw(displayedText' # displayedText)
    /\ UNCHANGED avatarVars

\* The timer of the graph effect fires: addGraphShape.
SpawnGraph ==
    /\ graphTimer
    /\ shapes < MaxShapes
    /\ graphTimer' = FALSE
    /\ shapes' = shapes + 1
    /\ appLookAtTarget' = Some(GraphSpawn)
    /\ ikTarget' = Some(GraphSpawn)
    /\ avatarState' = "GRABBING"
    /\ returnTimers' = returnTimers + 1
    /\ UNCHANGED << strokes, currentStroke, aiThinking, aiText, orbitEnabled, analysis,
                    charIndex, displayedText, boardPointerDown, dragging >>
    /\ Redraw(FALSE)
    /\ UNCHANGED avatarVars

\* The timer addGraphShape set fires.
AutoReturn ==
    /\ returnTimers > 0
    /\ returnTimers' = returnTimers - 1
    /\ avatarState' = "IDLE"
    /\ ikTarget' = Null
    /\ UNCHANGED << appLookAtTarget, strokes, currentStroke, aiThinking, aiText,
                    orbitEnabled, shapes, analysis, graphTimer, charIndex,
                    displayedText, boardPointerDown, dragging >>
    /\ Redraw(FALSE)
    /\ UNCHANGED avatarVars

\* The Clean button.
ClearBoard ==
    /\ strokes' = << >>
    /\ aiText' = << >>
    /\ avatarState' = "IDLE"
    /\ ikTarget' = Null
    /\ AiTextEffects(aiText, << >>)
    /\ UNCHANGED << appLookAtTarget, currentStroke, aiThinking, orbitEnabled, shapes,
                    analysis, returnTimers, boardPointerDown, dragging >>
    /\ Redraw(strokes' # strokes \/ displayedText' # displayedText)
    /\ UNCHANGED avatarVars

\* The pointer goes down on the board.  A stroke of the model is its first
\* point; the points a move appends are not kept.
BoardPointerDown ==
    /\ ~boardPointerDown
    /\ ~dragging
    /\ Len(strokes) < MaxStrokes
    /\ boardPointerDown' = TRUE
    /\ orbitEnabled' = FALSE
    /\ \E point \in BoardPoints :
        LET uv == MapWorldToUV(point)
        IN  IF uv.u >= 0 /\ uv.u <= Unit /\ uv.v >= 0 /\ uv.v <= Unit
            THEN /\ avatarState' = "WRITING"
                 /\ ikTarget' = Some(AtBoardDepth(point))
                 /\ appLookAtTarget' = Some(point)
                 /\ currentStroke' = Some(uv)
            ELSE UNCHANGED << avatarState, ikTarget, appLookAtTarget, currentStroke >>
    /\ UNCHANGED << strokes, aiThinking, aiText, shapes, analysis, graphTimer,
                    returnTimers, charIndex, displayedText, dragging >>
    /\ Redraw(currentStroke' # currentStroke)
    /\ UNCHANGED avatarVars

\* The pointer moves over the board, down or not.  While a shape is dragged
\* the shape has captured the pointer.
BoardPointerMove ==
    /\ ~dragging
    /\ \E point \in BoardPoints :
        /\ appLookAtTarget' = (IF point.z < 2000 THEN Some(point) ELSE appLookAtTarget)
        /\ ikTarget' = (IF avatarState = "WRITING" /\ currentStroke # Null
                        THEN Some(AtBoardDepth(point)) ELSE ikTarget)
    /\ UNCHANGED << avatarState, strokes, currentStroke, aiThinking, aiText,
                    orbitEnabled, shapes, analysis, graphTimer, returnTimers,
                    charIndex, displayedText, boardPointerDown, dragging >>
    /\ Redraw(FALSE)
    /\ UNCHANGED avatarVars

\* The pointer goes up over the board.
BoardPointerUp ==
    /\ boardPointerDown
    /\ boardPointerDown' = FALSE
    /\ orbitEnabled' = TRUE
    /\ IF avatarState = "WRITING" /\ currentStroke # Null
       THEN /\ strokes' = Append(strokes, currentStroke[1])
            /\ currentStroke' = Null
       ELSE UNCHANGED << strokes, currentStroke >>
    /\ IF aiText = << >>
       THEN /\ avatarState' = "IDLE"
            /\ ikTarget' = Null
       ELSE UNCHANGED << avatarState, ikTarget >>
    /\ UNCHANGED << appLookAtTarget, aiThinking, aiText, shapes, analysis, graphTimer,
                    returnTimers, charIndex, displayedText, dragging >>
    /\ Redraw(strokes' # strokes)
    /\ UNCHANGED avatarVars

\* The 40 ms timer of the typewriter fires.
TypeChar ==
    /\ aiText # << >>
    /\ Len(aiText) > charIndex
    /\ charIndex' = charIndex + 1
    /\ displayedText' = SubSeq(aiText, 1, charIndex + 1)
    /\ UNCHANGED << avatarState, ikTarget, appLookAtTarget, strokes, currentStroke,
                    aiThinking, aiText, orbitEnabled, shapes, analysis, graphTimer,
                    returnTimers, boardPointerDown, dragging >>
    /\ Redraw(TRUE)
    /\ UNCHANGED avatarVars

\* The board draws again; with text still to come it reports where the chalk
\* stands: handleAIWritePos.
RedrawBoard ==
    /\ boardDirty
    /\ IF displayedText # << >> /\ charIndex < Len(aiText)
       THEN \E pos \in CursorPoints :
               /\ avatarState' = "WRITING"
               /\ ikTarget' = Some(AtBoardDepth(pos))
               /\ appLookAtTarget' = Some(pos)
               /\ boardDirty' = (currentStroke # Null)
       ELSE /\ boardDirty' = FALSE
            /\ UNCHANGED << avatarState, ikTarget, appLookAtTarget >>
    /\ UNCHANGED << strokes, currentStroke, aiThinking, aiText, orbitEnabled, shapes,
                    analysis, graphTimer, returnTimers, charIndex, displayedText,
                    boardPointerDown, dragging >>
    /\ UNCHANGED avatarVars

\* The pointer goes down on a shape: the mesh starts dragging and calls
\* onShapeDragStart.
ShapePointerDown ==
    /\ ~dragging
    /\ ~boardPointerDown
    /\ dragging' = TRUE
    /\ orbitEnabled' = FALSE
    /\ avatarState' = "GRABBING"
    /\ \E pos \in DragPoints :
        /\ ikTarget' = Some(pos)
        /\ appLookAtTarget' = Some(pos)
    /\ UNCHANGED << strokes, currentStroke, aiThinking, aiText, shapes, analysis,
                    graphTimer, returnTimers, charIndex, displayedText,
                    boardPointerDown >>
    /\ Redraw(FALSE)
    /\ UNCHANGED avatarVars

\* The pointer moves while the mesh drags: onShapeDragMove.
ShapePointerMove ==
    /\ dragging
    /\ \E point \in DragPoints :
        /\ ikTarget' = Some(AwayFromBoard(point))
        /\ appLookAtTarget' = Some(AwayFromBoard(point))
    /\ UNCHANGED << avatarState, strokes, currentStroke, aiThinking, aiText,
                    orbitEnabled, shapes, analysis, graphTimer, returnTimers,
                    charIndex, displayedText, boardPointerDown, dragging >>
    /\ Redraw(FALSE)
    /\ UNCHANGED avatarVars

\* The pointer goes up on the dragged mesh: onShapeDragEnd.
ShapePointerUp ==
    /\ dragging
    /\ dragging' = FALSE
    /\ orbitEnabled' = TRUE
    /\ avatarState' = "IDLE"
    /\ ikTarget' = Null
    /\ UNCHANGED << appLookAtTarget, strokes, currentStroke, aiThinking, aiText,
                    shapes, analysis, graphTimer, returnTimers, charIndex,
                    displayedText, boardPointerDown >>
    /\ Redraw(FALSE)
    /\ UNCHANGED avatarVars

NextApp ==
    \/ AskAI
    \/ AnalysisResponse
    \/ SpawnGraph
    \/ AutoReturn
    \/ ClearBoard
    \/ BoardPointerDown
    \/ BoardPointerMove
    \/ BoardPointerUp
    \/ TypeChar
    \/ RedrawBoard
    \/ ShapePointerDown
    \/ ShapePointerMove
    \/ ShapePointerUp

\* ---------------------------------------------------- the state machine
MaxFrames == 2

\* Hand targets, points of the board plane (z = -1.8): one within the deadzone
\* of the initial body target (1.2 - 0.4 = 0.8), one beyond it (2.0 - 0.4 =
\* 1.6), and one beyond the stage bound (-3.8 - 0.4 = -4.2).
HandTargets ==
    { Vec(1200, 1500, -1800), Vec(2000, 1500, -1800), Vec(-3800, 2800, -1800) }

GazeTargets == { Vec(2000, 1500, -2000) }

\* Frame deltas: 1/60 s, and a stalled frame of 0.1 s.
Deltas == { 50, 300 }

Opt(S) == { Null } \cup { Some(v) : v \in S }

InitAvatar ==
    /\ frame = 0
    /\ time = 0
    /\ state = "IDLE"
    /\ targetPosition = Null
    /\ lookAtTarget = Null
    /\ dt = 0
    /\ bodyTargetX = 0
    /\ bodyPosition = Vec(0, 0, 0)
    /\ spineY = RestHeight
    /\ headLookAt = Vec(0, 1500, 5000)
    /\ currentHandTarget = Vec(1000, 1500, 0)
    /\ dist = 0
    /\ elbowAngle = 0
    /\ bodyRotationY = 0
    /\ bodyLean = Vec(0, 0, 0)

\* One call of the useFrame callback with props (st, tp, la) and frame delta.
\* Each stage reads what the stages before it wrote in this call: the primed
\* variables.  The spine still carries the rotation the previous call left.
UseFrame(st, tp, la, delta) ==
    /\ frame' = frame + 1
    /\ time' = time + delta
    /\ state' = st
    /\ targetPosition' = tp
    /\ lookAtTarget' = la
    /\ dt' = ClampDt(delta)
    /\ bodyTargetX' = NextBodyTargetX(bodyTargetX, st, tp, la)
    /\ bodyPosition' =
           [bodyPosition EXCEPT !.x = NextBodyPositionX(bodyPosition.x, bodyTargetX', st, dt')]
    /\ spineY' = NextSpineY(spineY, st, time', bodyPosition'.x, bodyTargetX', dt')
    /\ headLookAt' = NextHeadLookAt(headLookAt, st, la, dt')
    /\ currentHandTarget' = NextHandTarget(currentHandTarget, st, tp, bodyPosition'.x, dt')
    /\ dist' = ShoulderDist(currentHandTarget',
                            ShoulderPos(bodyPosition'.x, spineY', bodyLean.x,
                                        bodyRotationY, bodyLean.z))
    /\ elbowAngle' = ElbowAngle(dist')
    /\ bodyRotationY' = NextBodyRotationY(bodyRotationY, st, tp, la, bodyPosition'.x, dt')
    /\ bodyLean' = NextBodyLean(bodyLean, st, tp, la, bodyPosition'.x, dist', dt')
    /\ UNCHANGED appVars

Frame ==
    /\ frame < MaxFrames
    /\ \E st \in AvatarState, tp \in Opt(HandTargets), la \in Opt(GazeTargets),
          delta \in Deltas :
            UseFrame(st, tp, la, delta)

Init == InitAvatar /\ InitApp

Next == Frame

Spec == Init /\ [][Next]_vars

\* ------------------------------------------- the elbow solve on its own
MaxDist == 2000

\* The bend of the elbow as a function of the shoulder-to-hand distance
\* alone: every distance from 0 to MaxDist, then the solve.
InitIK ==
    /\ frame = 0
    /\ time = 0
    /\ state = "IDLE"
    /\ targetPosition = Null
    /\ lookAtTarget = Null
    /\ dt = 0
    /\ bodyTargetX = 0
    /\ bodyPosition = Vec(0, 0, 0)
    /\ spineY = RestHeight
    /\ headLookAt = Vec(0, 1500, 5000)
    /\ currentHandTarget = Vec(1000, 1500, 0)
    /\ dist \in 0 .. MaxDist
    /\ elbowAngle = 0
    /\ bodyRotationY = 0
    /\ bodyLean = Vec(0, 0, 0)
    /\ InitApp

BendElbow ==
    /\ frame = 0
    /\ frame' = 1
    /\ elbowAngle' = ElbowAngle(dist)
    /\ UNCHANGED << time, state, targetPosition, lookAtTarget, dt, bodyTargetX,
                    bodyPosition, spineY, headLookAt, currentHandTarget, dist,
                    bodyRotationY, bodyLean >>
    /\ UNCHANGED appVars

SpecIK == InitIK /\ [][BendElbow]_vars

\* ------------------------------------------- non-finite directive fields
NonFiniteHandTargets == { Vec(NaN, 1500, -1800) }

NonFiniteGazeTargets == { Vec(2000, NaN, -2000) }

FrameNonFinite ==
    /\ frame < MaxFrames
    /\ \E st \in AvatarState,
          tp \in Opt({Vec(2000, 1500, -1800)} \cup NonFiniteHandTargets),
          la \in Opt(GazeTargets \cup NonFiniteGazeTargets) :
            UseFrame(st, tp, la, 50)

SpecNonFinite == Init /\ [][FrameNonFinite]_vars

\* ------------------------------------------------- props held constant
MaxHoldFrames == 60

\* The frame delta of a monitor at 60 Hz.
HoldDeltas == { 50 }

\* The parent renders once and then leaves the props alone: the first call
\* draws them, every later call gets the props and the delta of the call
\* before it.
HoldFrame ==
    /\ frame < MaxHoldFrames
    /\ \E st \in AvatarState, tp \in Opt(HandTargets), la \in Opt(GazeTargets),
          delta \in HoldDeltas :
            /\ frame >= 1 =>
                    /\ st = state
                    /\ tp = targetPosition
                    /\ la = lookAtTarget
                    /\ ClampDt(delta) = dt
            /\ UseFrame(st, tp, la, delta)

SpecHold == Init /\ [][HoldFrame]_vars

\* --------------------------------------------- props cleared after use
MaxRestFrames == 200

\* One call with any props, at any of the deltas.
Disturb ==
    /\ frame = 0
    /\ \E st \in AvatarState, tp \in Opt(HandTargets), la \in Opt(GazeTargets),
          delta \in Deltas :
            UseFrame(st, tp, la, delta)

\* After it the parent is idle and passes no target (App.tsx:12-14): calls
\* with state IDLE and both targets null, at the delta of the first call.
RestFrame ==
    /\ frame >= 1
    /\ frame < MaxRestFrames
    /\ \E delta \in Deltas :
            /\ ClampDt(delta) = dt
            /\ UseFrame("IDLE", Null, Null, delta)

SpecRest == Init /\ [][Disturb \/ RestFrame]_vars

\* ------------------------------------------------------------ the page
\* The events of the page in any order; the avatar is not stepped.
SpecApp == Init /\ [][NextApp]_vars

\* The page with the typewriter's timer firing: a timeout that is set and not
\* cleared runs.
SpecAppFair == SpecApp /\ WF_vars(TypeChar)

\* ================================================================ claims
\* A step that is one update of the animator.
IsUpdate == frame' = frame + 1

\* The hand target of this update lies within the deadzone of the body
\* target b the update starts from: |(x - 0.4) - b| <= 0.8.
WithinDeadzone(tp, b) ==
    /\ tp # Null
    /\ Finite(tp[1].x)
    /\ tp[1].x - HandOffset - b <= Deadzone
    /\ b - (tp[1].x - HandOffset) <= Deadzone

BeyondDeadzone(tp, b) ==
    /\ tp # Null
    /\ Finite(tp[1].x)
    /\ \/ tp[1].x - HandOffset - b > Deadzone
       \/ b - (tp[1].x - HandOffset) > Deadzone

\* C1, as stated: in WRITING or GRABBING an update whose hand target is
\* within the deadzone leaves bodyTargetX as it was.
C1_HoldWritingOrGrabbing ==
    [][(IsUpdate /\ state' \in {"WRITING", "GRABBING"}
          /\ WithinDeadzone(targetPosition', bodyTargetX))
        => bodyTargetX' = bodyTargetX]_vars

\* C1, amended: in WRITING an update whose hand target is within the deadzone
\* of bodyTargetX leaves bodyTargetX as it was.  The update leaves the
\* premise true of the next one with that target, so any number of further
\* updates leave it too.
C1_DeadzoneHold ==
    [][(IsUpdate /\ state' = "WRITING"
          /\ WithinDeadzone(targetPosition', bodyTargetX))
        => bodyTargetX' = bodyTargetX]_vars

\* A second update that held: the body target is where an IDLE drift put it
\* (0.3 * 2.0), not under the WRITING hand at 1.2 - 0.4.
C1_Witness ==
    /\ frame = 2
    /\ state = "WRITING"
    /\ targetPosition = Some(Vec(1200, 1500, -1800))
    /\ bodyTargetX = 600

\* C2, as stated, read in the states that source the body target from the
\* hand target: an update whose hand target is beyond the deadzone sets
\* bodyTargetX to exactly x - 0.4.
C2_TripExact ==
    [][(IsUpdate /\ state' \in {"WRITING", "GRABBING"}
          /\ BeyondDeadzone(targetPosition', bodyTargetX))
        => bodyTargetX' = targetPosition'[1].x - HandOffset]_vars

\* C2, amended: in WRITING or GRABBING an update whose hand target is beyond
\* the deadzone sets bodyTargetX to x - 0.4 clamped into [-3.2, 3.2].
C2_DeadzoneTrip ==
    [][(IsUpdate /\ state' \in {"WRITING", "GRABBING"}
          /\ BeyondDeadzone(targetPosition', bodyTargetX))
        => bodyTargetX' =
             IF targetPosition'[1].x - HandOffset > StageBound THEN StageBound
             ELSE IF targetPosition'[1].x - HandOffset < -StageBound THEN -StageBound
             ELSE targetPosition'[1].x - HandOffset]_vars

\* The first update, WRITING at x = 2.0 from bodyTargetX = 0, stepped to 1.6.
C2_Witness ==
    /\ frame = 1
    /\ state = "WRITING"
    /\ targetPosition = Some(Vec(2000, 1500, -1800))
    /\ bodyTargetX = 1600

\* C3: bodyTargetX is within the stage bounds [-3.2, 3.2] after every update.
C3_BodyTargetInStage ==
    /\ Finite(bodyTargetX)
    /\ bodyTargetX >= -StageBound
    /\ bodyTargetX <= StageBound

\* The clamp acted: the hand at x = -3.8 asks for -4.2.
C3_Witness ==
    /\ frame >= 1
    /\ state = "GRABBING"
    /\ targetPosition = Some(Vec(-3800, 2800, -1800))
    /\ bodyTargetX = -StageBound

\* new is on the side of target that old was on.
SameSide(old, new, target) ==
    /\ Finite(new)
    /\ old <= target => new <= target
    /\ old >= target => new >= target

VSameSide(old, new, target) ==
    /\ SameSide(old.x, new.x, target.x)
    /\ SameSide(old.y, new.y, target.y)
    /\ SameSide(old.z, new.z, target.z)

\* C4: every update uses dt = min(delta, 0.05), and no smoothed quantity
\* ends the update on the other side of its target.
C4_NoOvershoot ==
    [][IsUpdate =>
        /\ dt' = (IF time' - time < MaxDt THEN time' - time ELSE MaxDt)
        /\ SameSide(bodyPosition.x, bodyPosition'.x, bodyTargetX')
        /\ VSameSide(headLookAt, headLookAt', TargetLook(state', lookAtTarget'))
        /\ VSameSide(currentHandTarget, currentHandTarget',
                     ActivePos(state', targetPosition', bodyPosition'.x))
        /\ SameSide(bodyRotationY, bodyRotationY',
                    IF HasFocus(targetPosition', lookAtTarget')
                    THEN TargetYRot(targetPosition', lookAtTarget', bodyPosition'.x)
                    ELSE 0)
        /\ SameSide(bodyLean.x, bodyLean'.x,
                    IF HasFocus(targetPosition', lookAtTarget')
                    THEN TargetLeanX(state', targetPosition', lookAtTarget', bodyPosition'.x)
                    ELSE 0)
        /\ SameSide(bodyLean.z, bodyLean'.z,
                    IF HasFocus(targetPosition', lookAtTarget')
                    THEN TargetLeanZ(state', targetPosition', lookAtTarget',
                                     bodyPosition'.x, dist')
                    ELSE 0)]_vars

\* An update with the directive and the dt of the update before it.
SameDirective ==
    /\ frame >= 1
    /\ IsUpdate
    /\ state' = state
    /\ targetPosition' = targetPosition
    /\ lookAtTarget' = lookAtTarget
    /\ dt' = dt

Distance(u, v) == VLength(VSub(u, v))

\* C5 (its first half): with the target, the state and dt fixed, the
\* distance of a smoothed quantity to its target does not grow from one
\* frame to the next.
C5_DistanceNonIncreasing ==
    [][SameDirective =>
        /\ Distance(headLookAt', TargetLook(state', lookAtTarget'))
             <= Distance(headLookAt, TargetLook(state', lookAtTarget'))
        /\ (targetPosition' # Null /\ state' # "THINKING")
             => Distance(currentHandTarget', targetPosition'[1])
                  <= Distance(currentHandTarget, targetPosition'[1])
        /\ bodyTargetX' = bodyTargetX
             => FAbs(bodyPosition'.x - bodyTargetX') <= FAbs(bodyPosition.x - bodyTargetX')]_vars

\* C6: at or beyond maxReach the elbow is fully extended: the clamped cosine
\* is 1 and the bend angle 0.
C6_FullReachStraight ==
    (frame >= 1 /\ Finite(dist) /\ dist >= MaxReach)
        => /\ ClampCos(CosElbow(dist)) = Unit
           /\ elbowAngle = 0

\* C7: for every finite distance the elbow angle is defined and within
\* [0, pi]; at distance 0 it is acos(clamp((L1^2 + L2^2) / (2 L1 L2), -1, 1)).
C7_ElbowAngleDefined ==
    (frame >= 1 /\ Finite(dist))
        => /\ Finite(elbowAngle)
           /\ elbowAngle >= 0
           /\ elbowAngle <= Pi
           /\ dist = 0 =>
                elbowAngle =
                  Acos(LET c == ((700 * 700 + 750 * 750) * Unit) \div (2 * 700 * 750)
                       IN  IF c > Unit THEN Unit ELSE IF c < -Unit THEN -Unit ELSE c)

\* The solve at distance 0, where the unclamped cosine is above 1.
C7_Witness ==
    /\ frame = 1
    /\ dist = 0
    /\ CosElbow(dist) > Unit
    /\ elbowAngle = 0

NonFiniteDirective(tp, la) ==
    \/ tp # Null /\ ~VFinite(tp[1])
    \/ la # Null /\ ~VFinite(la[1])

\* C8: an update whose directive carries a non-finite coordinate leaves the
\* animator's state as it was, and the state stays finite.
C8_NonFiniteRejected ==
    [][(IsUpdate /\ NonFiniteDirective(targetPosition', lookAtTarget'))
        => /\ UNCHANGED << bodyTargetX, bodyPosition, headLookAt,
                           currentHandTarget, bodyRotationY, bodyLean >>
           /\ Finite(bodyTargetX') /\ VFinite(bodyPosition') /\ VFinite(headLookAt')
           /\ VFinite(currentHandTarget') /\ Finite(bodyRotationY')
           /\ VFinite(bodyLean')]_vars

\* new is no further from old than one smoothing step from old toward target
\* at the given rate.
WithinStep(old, new, target, rate) ==
    FAbs(FSub(new, old))
        <= FAbs(FSub(Lerp(old, target, dt' * rate, TicksPerSecond), old))

\* C9: whatever appears or disappears in the directive, no smoothed output
\* moves in one update by more than its smoothing step toward its target
\* (its default, when the directive field is absent).
C9_NoSnap ==
    [][IsUpdate =>
        /\ WithinStep(bodyPosition.x, bodyPosition'.x, bodyTargetX', BodyLerpSpeed(state'))
        /\ \A k \in {"x", "y", "z"} :
             /\ WithinStep(headLookAt[k], headLookAt'[k],
                           TargetLook(state', lookAtTarget')[k], HeadLerpSpeed(state'))
             /\ WithinStep(currentHandTarget[k], currentHandTarget'[k],
                           ActivePos(state', targetPosition', bodyPosition'.x)[k],
                           HandLerpSpeed(state'))
        /\ WithinStep(bodyRotationY, bodyRotationY',
                      IF HasFocus(targetPosition', lookAtTarget')
                      THEN TargetYRot(targetPosition', lookAtTarget', bodyPosition'.x)
                      ELSE 0,
                      IF HasFocus(targetPosition', lookAtTarget')
                      THEN RotationSpeed(state') ELSE 3)
        /\ WithinStep(bodyLean.x, bodyLean'.x,
                      IF HasFocus(targetPosition', lookAtTarget')
                      THEN TargetLeanX(state', targetPosition', lookAtTarget', bodyPosition'.x)
                      ELSE 0,
                      LeanLerpSpeed)
        /\ WithinStep(bodyLean.z, bodyLean'.z,
                      IF HasFocus(targetPosition', lookAtTarget')
                      THEN TargetLeanZ(state', targetPosition', lookAtTarget',
                                       bodyPosition'.x, dist')
                      ELSE 0,
                      LeanLerpSpeed)]_vars

\* C10: every update whose state is THINKING leaves bodyTargetX at 0.
C10_ThinkingCentres ==
    [][(IsUpdate /\ state' = "THINKING") => bodyTargetX' = 0]_vars

\* C11: the hand is smoothed toward the think pose (0.15, 1.6, 0.35) from the
\* root when THINKING, whatever hand target the props carry; otherwise toward
\* the hand target of the props if there is one; otherwise toward the rest
\* pose (0.35, 0.9, 0.3) from the root.
C11_HandTargetSelection ==
    [][IsUpdate =>
        currentHandTarget' =
            VLerp(currentHandTarget,
                  IF state' = "THINKING"
                  THEN Vec(bodyPosition'.x + 150, bodyPosition'.y + 1600,
                           bodyPosition'.z + 350)
                  ELSE IF targetPosition' # Null THEN targetPosition'[1]
                  ELSE Vec(bodyPosition'.x + 350, bodyPosition'.y + 900,
                           bodyPosition'.z + 300),
                  dt' * HandLerpSpeed(state'), TicksPerSecond)]_vars

\* The first update, THINKING with a hand target in the props: the hand went
\* a tenth of the way from (1, 1.5, 0) to the think pose.
C11_Witness ==
    /\ frame = 1
    /\ state = "THINKING"
    /\ targetPosition # Null
    /\ dt = 50
    /\ currentHandTarget = Vec(915, 1510, 35)

\* The scale of the fixed-point grid bounds what "at rest" can mean: a lerp by
\* the fraction f stops moving once the remainder is below 1 / f units.
RestEpsilon == 20

SettleFrames == 150

Near(a, b) == Finite(a) /\ a - b <= RestEpsilon /\ b - a <= RestEpsilon

\* Yaw and lean are at 0 and the hand is at the rest pose (0.35, 0.9, 0.3)
\* from the root, to within RestEpsilon.
AtRest ==
    /\ Near(bodyRotationY, 0)
    /\ Near(bodyLean.x, 0)
    /\ Near(bodyLean.z, 0)
    /\ Near(currentHandTarget.x, bodyPosition.x + 350)
    /\ Near(currentHandTarget.y, bodyPosition.y + 900)
    /\ Near(currentHandTarget.z, bodyPosition.z + 300)

\* C12: from whatever state one update with any props left, SettleFrames
\* updates in IDLE without targets bring yaw, lean and hand to rest, and
\* every further such update keeps them there.
C12_SettlesAtRest ==
    frame > SettleFrames => AtRest

\* At rest away from the centre of the stage: the first update sent the body
\* target to the left stage bound, and the hand rests beside the root there.
C12_Witness ==
    /\ frame > SettleFrames
    /\ state = "IDLE"
    /\ targetPosition = Null
    /\ lookAtTarget = Null
    /\ bodyTargetX = -StageBound
    /\ bodyPosition.x < -3000
    /\ AtRest

\* C13: an update whose props carry neither a hand target nor a gaze target
\* leaves bodyTargetX as it was, in every state.
C13_NoTargetsHold ==
    [][(IsUpdate /\ targetPosition' = Null /\ lookAtTarget' = Null)
        => bodyTargetX' = bodyTargetX]_vars

\* A THINKING update without targets, after one that moved the body target.
C13_Witness ==
    /\ frame = 2
    /\ state = "THINKING"
    /\ targetPosition = Null
    /\ lookAtTarget = Null
    /\ bodyTargetX # 0

\* C14: an IDLE update whose props carry a gaze target sets bodyTargetX to
\* 0.3 * gaze.x clamped into the stage, with or without a hand target.
C14_IdleDrift ==
    [][(IsUpdate /\ state' = "IDLE" /\ lookAtTarget' # Null)
        => bodyTargetX' =
             LET drift == TDiv(lookAtTarget'[1].x * 3, 10)
             IN  IF drift > StageBound THEN StageBound
                 ELSE IF drift < -StageBound THEN -StageBound
                 ELSE drift]_vars

\* C15: while a shape is dragged the state prop of the avatar is GRABBING.
C15_DragKeepsGrabbing ==
    dragging => avatarState = "GRABBING"

\* The board is to write text it has not finished.
AiWriting == aiText # << >> /\ charIndex < Len(aiText)

\* C16: after the pointer goes up on the board, with no text of the AI being
\* written, the props carry neither a hand target nor a gaze target.
C16_IdleBoardNoTargets ==
    [][(boardPointerDown /\ ~boardPointerDown' /\ ~AiWriting')
        => (ikTarget' = Null /\ appLookAtTarget' = Null)]_vars

\* C17: WRITING with the hand target (2.0, 1.5, -1.8) for 60 updates at
\* dt = 1/60 from the initial state leaves currentHandTarget within 0.01 of
\* the target.
C17_HandReachesTarget ==
    (frame = 60 /\ state = "WRITING" /\ dt = 50
        /\ targetPosition = Some(Vec(2000, 1500, -1800)))
        => Distance(currentHandTarget, Vec(2000, 1500, -1800)) <= 10

\* The 60th update of that run, the hand a grid step from the target.
C17_Witness ==
    /\ frame = 60
    /\ state = "WRITING"
    /\ dt = 50
    /\ targetPosition = Some(Vec(2000, 1500, -1800))
    /\ lookAtTarget = Null
    /\ Distance(currentHandTarget, Vec(2000, 1500, -1800)) <= 1

\* C18: the gaze is smoothed toward (2, 4, 5) when THINKING, whatever gaze
\* target the props carry; otherwise toward the gaze target of the props if
\* there is one; otherwise toward (0, 1.5, 10).  The rate is 20/s while
\* WRITING and 5/s otherwise.
C18_GazeTargetSelection ==
    [][IsUpdate =>
        headLookAt' =
            VLerp(headLookAt,
                  IF state' = "THINKING" THEN Vec(2000, 4000, 5000)
                  ELSE IF lookAtTarget' # Null THEN lookAtTarget'[1]
                  ELSE Vec(0, 1500, 10000),
                  dt' * (IF state' = "WRITING" THEN 20 ELSE 5),
                  TicksPerSecond)]_vars

\* The first update, THINKING with a gaze target in the props: the gaze went
\* a twelfth of the way from (0, 1.5, 5) to (2, 4, 5).
C18_Witness ==
    /\ frame = 1
    /\ state = "THINKING"
    /\ lookAtTarget # Null
    /\ dt = 50
    /\ headLookAt = Vec(166, 1708, 5000)

\* C19: an update whose props carry neither target sets the lean to exactly
\* (0, 0, 0) and moves the yaw toward 0 by the fraction 3 * dt of its value;
\* a yaw that was not 0 is not 0 after it.
C19_ResetLeanSnapsYawEases ==
    [][(IsUpdate /\ targetPosition' = Null /\ lookAtTarget' = Null)
        => /\ bodyLean' = Vec(0, 0, 0)
           /\ bodyRotationY' = bodyRotationY - TDiv(bodyRotationY * 3 * dt', TicksPerSecond)
           /\ bodyRotationY # 0 => bodyRotationY' # 0]_vars

\* An update without targets after one that turned and leaned the body: the
\* lean is gone, the yaw is not.
C19_Witness ==
    /\ frame = 2
    /\ targetPosition = Null
    /\ lookAtTarget = Null
    /\ bodyLean = Vec(0, 0, 0)
    /\ bodyRotationY # 0

\* C20: with a focus point, in IDLE, THINKING and WALKING both lean targets
\* are 0 and the lean is smoothed toward 0 at 5/s; in GRABBING and WRITING
\* the roll is smoothed at 5/s toward -localX * factor * reachExtension, with
\* factor 0.05 for WRITING and 0.2 for GRABBING and reachExtension =
\* min(dist / maxReach, 1) within [0, 1].
C20_LeanTargets ==
    [][(IsUpdate /\ (targetPosition' # Null \/ lookAtTarget' # Null)) =>
        LET focus == IF targetPosition' # Null THEN targetPosition'[1]
                     ELSE lookAtTarget'[1]
            localX == focus.x - bodyPosition'.x
            reach == IF dist' >= 700 + 750 - 10 THEN Unit
                     ELSE TDiv(dist' * Unit, 700 + 750 - 10)
            factor == IF state' = "WRITING" THEN 5 ELSE 20
        IN  IF state' \in {"GRABBING", "WRITING"}
            THEN /\ reach >= 0
                 /\ reach <= Unit
                 /\ bodyLean'.z =
                      Lerp(bodyLean.z, FMul(TDiv(-localX * factor, 100), reach),
                           dt' * 5, TicksPerSecond)
            ELSE /\ bodyLean'.x = Lerp(bodyLean.x, 0, dt' * 5, TicksPerSecond)
                 /\ bodyLean'.z = Lerp(bodyLean.z, 0, dt' * 5, TicksPerSecond)]_vars

\* A GRABBING update with the hand short of full reach that rolled the body.
C20_Witness ==
    /\ frame >= 1
    /\ state = "GRABBING"
    /\ dist > 0
    /\ dist < MaxReach
    /\ bodyLean.z # 0

\* C21: a WRITING update applies no bob: the spine height takes one lerp step
\* by 10 * dt toward the rest height 1.0 and is no further from it than
\* before.  In every other update the walk-bob term, what is left of the
\* spine height after the rest height and the breathing sine, is at most 0.05
\* in magnitude, and the spine height is within 1.0 +/- 0.055.
C21_VerticalBob ==
    [][IsUpdate =>
        IF state' = "WRITING"
        THEN /\ spineY' = Lerp(spineY, 1000, dt' * 10, TicksPerSecond)
             /\ FAbs(spineY' - 1000) <= FAbs(spineY - 1000)
        ELSE /\ FAbs(spineY' - 1000 - TDiv(Sin(time' \div 2) * 5, Unit)) <= 50
             /\ spineY' >= 1000 - 55
             /\ spineY' <= 1000 + 55]_vars

\* A walking bob at its cap: the root is far from its target and the spine
\* is more than the breathing amplitude away from the rest height.
C21_Witness ==
    /\ frame >= 1
    /\ state = "GRABBING"
    /\ FAbs(bodyPosition.x - bodyTargetX) > 1000
    /\ spineY > 1000 + 5

\* C26: bodyPosition.x is within the stage bounds [-3.2, 3.2] after every
\* update.
C26_BodyPositionInStage ==
    /\ Finite(bodyPosition.x)
    /\ bodyPosition.x >= -3200
    /\ bodyPosition.x <= 3200

\* Two updates that walked the root toward a body target at the left bound.
C26_Witness ==
    /\ frame = 2
    /\ bodyTargetX = -StageBound
    /\ bodyPosition.x < -1000

\* C27: the clamped elbow cosine does not grow with the shoulder-to-hand
\* distance, and the bend angle does not shrink (by more than the one grid
\* step the arc cosine of the model is rounded to); from maxReach on the
\* cosine is constant; up to |L2 - L1| = 0.05 it is exactly 1, beyond it
\* less.
C27_CosineMonotone ==
    frame >= 1 =>
        /\ ClampCos(CosElbow(dist + 1)) <= ClampCos(CosElbow(dist))
        /\ ElbowAngle(dist + 1) >= elbowAngle - 1
        /\ dist >= 700 + 750 - 10
             => ClampCos(CosElbow(dist)) = ClampCos(CosElbow(700 + 750 - 10))
        /\ dist <= 750 - 700 => ClampCos(CosElbow(dist)) = Unit
        /\ dist > 750 - 700 => ClampCos(CosElbow(dist)) < Unit

\* The solve beyond full reach: the cosine of maxReach, above -1.
C27_Witness ==
    /\ frame = 1
    /\ dist > MaxReach
    /\ ClampCos(CosElbow(dist)) = -972
    /\ elbowAngle = ElbowAngle(MaxReach)

\* C22: when the request is answered with a text that holds a graph command
\* [[GRAPH: f]], the timer that spawns the graph is pending.
C22_GraphTagSpawns ==
    [][(analysis = Pending /\ analysis'.status = "fulfilled"
            /\ GraphMatch(analysis'.value))
        => graphTimer']_vars

\* C23: a pending analysis request ends fulfilled, never rejected, with
\* aiThinking false and the state WRITING.
C23_RequestCompletes ==
    [][(analysis = Pending /\ analysis' # Pending)
        => (/\ analysis'.status = "fulfilled"
            /\ ~aiThinking'
            /\ avatarState' = "WRITING")]_vars

\* displayedText is the first charIndex characters of aiText.
Revealed ==
    /\ charIndex <= Len(aiText)
    /\ displayedText = SubSeq(aiText, 1, charIndex)

\* C24: displayedText is a prefix of aiText of length charIndex <=
\* aiText.length; with aiText unchanged charIndex changes by single steps
\* upward only, and text still to be shown is shown in full; when aiText
\* becomes empty both are reset; the board reports the chalk, which turns
\* the props of the avatar to writing, only while charIndex < aiText.length.
C24_Typewriter ==
    /\ []Revealed
    /\ [][aiText' = aiText => charIndex' \in { charIndex, charIndex + 1 }]_vars
    /\ [](aiText = << >> => (charIndex = 0 /\ displayedText = << >>))
    /\ [][(RedrawBoard /\ ~AiWriting)
            => UNCHANGED << avatarState, ikTarget, appLookAtTarget >>]_vars
    /\ AiWriting ~> (charIndex = Len(aiText))

C24_Witness ==
    /\ aiText = ApiErrorText
    /\ displayedText = ApiErrorText
    /\ charIndex = Len(ApiErrorText)

\* C25: whenever the state prop of the avatar is IDLE the hand target is
\* absent.
C25_IdleNoHandTarget ==
    avatarState = "IDLE" => ikTarget = Null

====
